---- MODULE Spec2Model ----
(***************************************************************************)
(* A model of Firebase.List and Firebase.Binding (src/ember-firebase.js,    *)
(* third version of the design).                                           *)
(*                                                                         *)
(* Firebase.List is an Ember.ArrayProxy whose content/_names pair mirrors  *)
(* the ordered children of a Firebase location reference.  The Firebase    *)
(* reference is the collaborator: an ordered list of named children per    *)
(* location, which delivers child events synchronously to the listeners    *)
(* registered with on().                                                   *)
(*                                                                         *)
(* Firebase.Binding keeps a property of its connected objects and the      *)
(* value at a Firebase reference in step: changes of either side schedule  *)
(* a sync per object in Ember's "sync" queue, which the run loop flushes.  *)
(***************************************************************************)
EXTENDS Integers, Sequences, FiniteSets, TLC

VARIABLES
  ref,        \* the proxy's `ref` property: a location, or Null
  content,    \* the ArrayProxy's content: the values
  _names,     \* the parallel array of child names
  listeners,  \* registrations made with ref.on(): records [ref, type]
  remote,     \* per location: the children, in sibling order
  pushCount,  \* how many auto-named children push() has generated
  last,       \* the operation that ran last, with what it did
  scen,       \* progress through the reconciliation scenario, 0..4
  steps,      \* operations run so far
  isDestroyed,        \* the list has been destroyed (willDestroy has run)
  event,              \* the child event handed to the list last, if any
  peer,               \* another Firebase.List instance: [ref, content, names, listeners]
  _objects,           \* Binding: the connected objects, in connection order
  _observingRef,      \* Binding: the "value" listener is registered
  _directionMap,      \* Binding: per object "push", "pull" or Null
  _ignoreRefChanges,  \* Binding: _refDidChange returns at once
  _oneWay,            \* Binding: from Firebase to the object only
  syncQueue,          \* the calls of _sync scheduled in the "sync" queue
  valueListeners,     \* registrations of _refDidChange on the binding's ref
  pathObservers,      \* objects whose path is observed by _pathDidChange
  localValue,         \* per object: the value of the bound property
  remoteValue,        \* the value at the binding's ref
  latest,             \* the snapshot _refDidChange received last
  writes,             \* calls of ref.set() made by the binding
  localChanges,       \* changes made to a bound property by the application
  flushed             \* what each _sync of the last flush did

listVars ==
  <<ref, content, _names, listeners, remote, pushCount, scen, isDestroyed, event,
    peer>>

bindingVars ==
  <<_objects, _observingRef, _directionMap, _ignoreRefChanges, _oneWay, syncQueue,
    valueListeners, pathObservers, localValue, remoteValue, latest, writes,
    localChanges, flushed>>

vars == <<listVars, bindingVars, last, steps>>

----------------------------------------------------------------------------
(* Bounds of the model. *)

MaxSteps   == 4   \* operations in one run
MaxRemote  == 3   \* children held by the locations, all together
MaxContent == 3   \* length of content (the code lets it outgrow _names)
MaxPush    == 2   \* auto-named children generated over a run
MaxOps     == 5   \* operations on a binding in one run

----------------------------------------------------------------------------
(* Values of the domain. *)

Null      == "null"        \* JavaScript null / undefined (falsy)
Undefined == "undefined"   \* a hole of a JavaScript array

Refs       == {"r1", "r2"}
OneRef     == {"r1"}
ChildNames == {"a", "b", "c"}
EditNames  == {"a", "b"}
PushNames  == <<"p1", "p2", "p3", "p4">>
EventTypes == {"child_added", "child_changed", "child_removed", "child_moved"}

\* The reserved key Firebase.Array writes under its location.
MarkerKey  == "_isArray"
MarkerNames == {"a", MarkerKey}

\* Names that are properties of the proxy object itself (`name in this`).
ProxyProps == {"ref", "content", "_names"}

\* Plain values are 1 and 2.  ObjBase + k is a local object whose toJSON()
\* returns k.
ObjBase     == 10
PlainValues == {1, 2}
Objects     == {ObjBase + 1}

isObject(object) == object >= ObjBase

----------------------------------------------------------------------------
(* Array primitives of JavaScript / Ember, on 0-based indices. *)

Min(x, y) == IF x < y THEN x ELSE y
Max(x, y) == IF x > y THEN x ELSE y

Range(s) == {s[i] : i \in 1..Len(s)}

\* Array.prototype.indexOf: first index of x, -1 when absent.
IndexOf(s, x) ==
  IF \E i \in 1..Len(s) : s[i] = x
    THEN (CHOOSE i \in 1..Len(s) : s[i] = x /\ \A j \in 1..(i-1) : s[j] # x) - 1
    ELSE -1

\* Array.prototype.slice(begin, end).
Slice(s, begin, end) ==
  LET len == Len(s)
      b   == IF begin < 0 THEN Max(len + begin, 0) ELSE Min(begin, len)
      e   == IF end < 0 THEN Max(len + end, 0) ELSE Min(end, len)
  IN  IF b < e THEN SubSeq(s, b + 1, e) ELSE <<>>

\* Ember's NativeArray.replace(idx, amt, objects) = splice(idx, amt, ...objects).
Replace(s, idx, amt, objects) ==
  LET len   == Len(s)
      start == IF idx < 0 THEN Max(len + idx, 0) ELSE Min(idx, len)
      cnt   == Min(Max(amt, 0), len - start)
  IN  SubSeq(s, 1, start) \o objects \o SubSeq(s, start + cnt + 1, len)

\* array[idx] = x: overwrites a slot, appends at idx = length, leaves holes
\* beyond.
AssignAt(s, idx, x) ==
  IF idx < Len(s)
    THEN [s EXCEPT ![idx + 1] = x]
    ELSE s \o [i \in 1..(idx - Len(s)) |-> Undefined] \o <<x>>

----------------------------------------------------------------------------
(* Value coercion. *)

\* A snapshot is a record [name, val]; val() returns the stored value.
getSnapshotValue(snapshot) == snapshot.val

getFirebaseValue(object) ==
  IF isObject(object) THEN object - ObjBase ELSE object

\* The value null, among the integers that stand for values.
NullValue == 0

createValueFromSnapshot(snapshot) ==
  IF snapshot.name \in ProxyProps THEN NullValue ELSE getSnapshotValue(snapshot)

----------------------------------------------------------------------------
(* Firebase.List: the four child-event handlers.  The list is the record   *)
(* [content, names]; each handler returns the list it leaves.              *)

List(c, n) == [content |-> c, names |-> n]

\* Mutant: a preceding sibling the list does not hold puts the element last.
_indexAfter_Append(n, childName) ==
  IF childName = Null THEN 0
  ELSE IF IndexOf(n, childName) = -1 THEN Len(n)
  ELSE IndexOf(n, childName) + 1

_indexAfter(n, childName) ==
  IF childName # Null THEN IndexOf(n, childName) + 1 ELSE 0

childWasAdded(l, snapshot, previousName) ==
  LET index == _indexAfter(l.names, previousName)
  IN  List(Replace(l.content, index, 0, <<createValueFromSnapshot(snapshot)>>),
           AssignAt(l.names, index, snapshot.name))

\* Mutant: an event for a name the list does not hold is ignored.
childWasChanged_KnownOnly(l, snapshot, previousName) ==
  IF IndexOf(l.names, snapshot.name) = -1
    THEN l
    ELSE LET index == _indexAfter(l.names, previousName)
         IN  List(Replace(l.content, index, 1, <<createValueFromSnapshot(snapshot)>>),
                  AssignAt(l.names, index, snapshot.name))

childWasChanged(l, snapshot, previousName) ==
  LET index == _indexAfter(l.names, previousName)
  IN  List(Replace(l.content, index, 1, <<createValueFromSnapshot(snapshot)>>),
           AssignAt(l.names, index, snapshot.name))

\* Mutant: the index is not tested against -1, so splice(-1, 1) runs.
childWasRemoved_NoGuard(l, snapshot) ==
  LET index == IndexOf(l.names, snapshot.name)
  IN  List(Replace(l.content, index, 1, <<>>),
           Replace(l.names, index, 1, <<>>))

\* Mutant: the element is removed from content, the name stays in _names.
childWasRemoved_ContentOnly(l, snapshot) ==
  LET index == IndexOf(l.names, snapshot.name)
  IN  IF index # -1
        THEN List(Replace(l.content, index, 1, <<>>), l.names)
        ELSE l

childWasRemoved(l, snapshot) ==
  LET index == IndexOf(l.names, snapshot.name)
  IN  IF index # -1
        THEN List(Replace(l.content, index, 1, <<>>),
                  Replace(l.names, index, 1, <<>>))
        ELSE l

\* Mutant: the element is added at its new place without being removed.
childWasMoved_AddOnly(l, snapshot, previousName) ==
  childWasAdded(l, snapshot, previousName)

\* Mutant: the handler ends after the removal; the element is added later.
childWasMoved_RemoveOnly(l, snapshot, previousName) ==
  childWasRemoved(l, snapshot)

childWasMoved(l, snapshot, previousName) ==
  childWasAdded(childWasRemoved(l, snapshot), snapshot, previousName)

\* The handler registered for an event type.
Handle(type, l, snapshot, previousName) ==
  CASE type = "child_added"   -> childWasAdded(l, snapshot, previousName)
    [] type = "child_changed" -> childWasChanged(l, snapshot, previousName)
    [] type = "child_removed" -> childWasRemoved(l, snapshot)
    [] type = "child_moved"   -> childWasMoved(l, snapshot, previousName)

----------------------------------------------------------------------------
(* Firebase.Array, as the file leaves it defined: the four handlers return *)
(* at once for the marker key; the values are those of getSnapshotValue.   *)

ArrayChildWasAdded(l, snapshot, previousName) ==
  IF snapshot.name = MarkerKey
    THEN l
    ELSE LET index == _indexAfter(l.names, previousName)
         IN  List(Replace(l.content, index, 0, <<getSnapshotValue(snapshot)>>),
                  AssignAt(l.names, index, snapshot.name))

ArrayChildWasChanged(l, snapshot, previousName) ==
  IF snapshot.name = MarkerKey
    THEN l
    ELSE LET index == _indexAfter(l.names, previousName)
         IN  List(Replace(l.content, index, 1, <<getSnapshotValue(snapshot)>>),
                  AssignAt(l.names, index, snapshot.name))

ArrayChildWasRemoved(l, snapshot) ==
  IF snapshot.name = MarkerKey
    THEN l
    ELSE LET index == IndexOf(l.names, snapshot.name)
         IN  IF index # -1
               THEN List(Replace(l.content, index, 1, <<>>),
                         Replace(l.names, index, 1, <<>>))
               ELSE l

ArrayChildWasMoved(l, snapshot, previousName) ==
  IF snapshot.name = MarkerKey
    THEN l
    ELSE ArrayChildWasAdded(ArrayChildWasRemoved(l, snapshot), snapshot,
                            previousName)

ArrayHandle(type, l, snapshot, previousName) ==
  CASE type = "child_added"   -> ArrayChildWasAdded(l, snapshot, previousName)
    [] type = "child_changed" -> ArrayChildWasChanged(l, snapshot, previousName)
    [] type = "child_removed" -> ArrayChildWasRemoved(l, snapshot)
    [] type = "child_moved"   -> ArrayChildWasMoved(l, snapshot, previousName)

----------------------------------------------------------------------------
(* The Firebase location: children in sibling order, events to listeners.  *)

Snapshot(name, val) == [name |-> name, val |-> val]

RemoteNames(rs) == {rs[i].name : i \in 1..Len(rs)}

\* How many children the locations hold, all together.
RECURSIVE Children(_)
Children(rem) ==
  IF DOMAIN rem = {}
    THEN 0
    ELSE LET h == CHOOSE x \in DOMAIN rem : TRUE
         IN  Len(rem[h]) + Children([x \in DOMAIN rem \ {h} |-> rem[x]])

\* 1-based position of a child of the location.
PosOf(rs, name) == CHOOSE i \in 1..Len(rs) : rs[i].name = name

\* The name of the sibling before position i (1-based), null for the first.
PrevName(rs, i) == IF i = 1 THEN Null ELSE rs[i - 1].name

Without(rs, name) == SelectSeq(rs, LAMBDA x : x.name # name)

InsertAfter(rs, pos, x) == SubSeq(rs, 1, pos) \o <<x>> \o SubSeq(rs, pos + 1, Len(rs))

\* An event of location h reaches the list when a listener of that type is
\* registered on h; the handler then runs synchronously.
Deliver(regs, h, type, l, snapshot, previousName) ==
  IF [ref |-> h, type |-> type] \in regs
    THEN Handle(type, l, snapshot, previousName)
    ELSE l

----------------------------------------------------------------------------
(* What the last operation was and did (observation only). *)

NoLast ==
  [op |-> "init", h |-> Null, delivered |-> FALSE, known |-> FALSE, changed |-> FALSE,
   index |-> 0, amount |-> 0, objects |-> <<>>, ops |-> <<>>, error |-> "none",
   from |-> Null, dropped |-> 0, object |-> Null]

\* A child event of location h: was it delivered, was its name in _names,
\* did it change the list l.
EventLast(type, h, snapshot, l) ==
  [NoLast EXCEPT !.op = type, !.h = h,
                 !.delivered = ([ref |-> h, type |-> type] \in listeners),
                 !.known = (snapshot.name \in Range(_names)),
                 !.changed = (l # List(content, _names))]

\* The reconciliation scenario: added(a,1,null), added(b,2,a), moved(a,b),
\* removed(b), starting from an empty bound list.
ScenarioEvents ==
  << [type |-> "child_added",   name |-> "a", val |-> 1, prev |-> Null],
     [type |-> "child_added",   name |-> "b", val |-> 2, prev |-> "a"],
     [type |-> "child_moved",   name |-> "a", val |-> 1, prev |-> "b"],
     [type |-> "child_removed", name |-> "b", val |-> 2, prev |-> Null] >>

ScenarioStep(type, h, snapshot, previousName) ==
  LET ev == [type |-> type, name |-> snapshot.name, val |-> snapshot.val,
             prev |-> previousName]
  IN  IF [ref |-> h, type |-> type] \notin listeners THEN 0
      ELSE IF scen < Len(ScenarioEvents) /\ scen > 0 /\ ev = ScenarioEvents[scen + 1]
        THEN scen + 1
      ELSE IF content = <<>> /\ _names = <<>> /\ ev = ScenarioEvents[1]
        THEN 1
      ELSE 0

----------------------------------------------------------------------------
\* No child event is on record.
NoEvent == [name |-> Null, val |-> NullValue, prev |-> Null]

\* No other list: an instance that was never bound.
NoPeer == [ref |-> Null, content |-> <<>>, names |-> <<>>, listeners |-> {}]

\* Every operation counts as one step of the run.
Step ==
  /\ steps < MaxSteps
  /\ steps' = steps + 1

\* An operation on the locations or on the list: no binding takes part.
ListOp ==
  /\ Step
  /\ UNCHANGED isDestroyed
  /\ UNCHANGED bindingVars
  /\ event' = NoEvent

\* Applies one child event of location h to the world: the list changes when
\* the event is delivered.
Emit(type, h, snapshot, previousName) ==
  \E l \in {Deliver(listeners, h, type, List(content, _names), snapshot, previousName)},
     pl \in {Deliver(peer.listeners, h, type, List(peer.content, peer.names),
                     snapshot, previousName)} :
      /\ Len(l.content) <= MaxContent
      /\ Len(pl.content) <= MaxContent
      /\ content' = l.content
      /\ _names' = l.names
      /\ peer' = [peer EXCEPT !.content = pl.content, !.names = pl.names]
      /\ last' = EventLast(type, h, snapshot, l)
      /\ scen' = ScenarioStep(type, h, snapshot, previousName)

(* Changes made to a location by any client; each raises the child event   *)
(* with the child's true preceding sibling.                                *)

RemoteAdd(h, name, val, pos) ==
  /\ ListOp
  /\ name \notin RemoteNames(remote[h])
  /\ Children(remote) < MaxRemote
  /\ pos <= Len(remote[h])
  /\ remote' = [remote EXCEPT ![h] = InsertAfter(@, pos, Snapshot(name, val))]
  /\ Emit("child_added", h, Snapshot(name, val), PrevName(remote'[h], pos + 1))
  /\ UNCHANGED <<ref, listeners, pushCount>>

RemoteChange(h, name, val) ==
  /\ ListOp
  /\ name \in RemoteNames(remote[h])
  /\ LET i == PosOf(remote[h], name)
     IN  /\ remote[h][i].val # val
         /\ remote' = [remote EXCEPT ![h][i].val = val]
         /\ Emit("child_changed", h, Snapshot(name, val), PrevName(remote[h], i))
  /\ UNCHANGED <<ref, listeners, pushCount>>

RemoteRemove(h, name) ==
  /\ ListOp
  /\ name \in RemoteNames(remote[h])
  /\ LET i == PosOf(remote[h], name)
     IN  /\ remote' = [remote EXCEPT ![h] = Without(@, name)]
         /\ Emit("child_removed", h, remote[h][i], Null)
  /\ UNCHANGED <<ref, listeners, pushCount>>

RemoteMove(h, name, pos) ==
  /\ ListOp
  /\ name \in RemoteNames(remote[h])
  /\ LET i    == PosOf(remote[h], name)
         rest == Without(remote[h], name)
     IN  /\ pos <= Len(rest)
         /\ pos + 1 # i
         /\ remote' = [remote EXCEPT ![h] = InsertAfter(rest, pos, remote[h][i])]
         /\ Emit("child_moved", h, remote[h][i], PrevName(remote'[h], pos + 1))
  /\ UNCHANGED <<ref, listeners, pushCount>>

----------------------------------------------------------------------------
(* Firebase.Proxy: binding the list to a location.                         *)

\* Mutant: the listeners of the old ref are left registered.
_teardownRef_None(regs, r) == regs

\* ref.off(type, handler) for the four handlers of the proxy: off is given
\* no context, so it takes the registrations of these handlers on r out of
\* whatever set of registrations it is applied to.
_teardownRef(regs, r) ==
  IF r # Null THEN regs \ {[ref |-> r, type |-> t] : t \in EventTypes} ELSE regs

\* ref.on(type, handler, this) for the four handlers of the proxy.
_setupRef(regs, r) ==
  IF r # Null THEN regs \cup {[ref |-> r, type |-> t] : t \in EventTypes} ELSE regs

_resetContent == List(<<>>, <<>>)

\* on("child_added") raises child_added for every child the location
\* already has, in sibling order.
RECURSIVE InitialChildren(_, _, _)
InitialChildren(l, rs, i) ==
  IF i > Len(rs)
    THEN l
    ELSE InitialChildren(childWasAdded(l, rs[i], PrevName(rs, i)), rs, i + 1)

\* set(list, "ref", h): the before-observers _teardownRef and _resetContent
\* run on the old ref, then the observer _setupRef on the new one.
SetRef(h) ==
  /\ ListOp
  /\ ~isDestroyed
  /\ h # ref
  /\ \E l \in {IF h # Null THEN InitialChildren(_resetContent, remote[h], 1)
                         ELSE _resetContent} :
         /\ ref' = h
         /\ listeners' = _setupRef(_teardownRef(listeners, ref), h)
         /\ peer' = [peer EXCEPT !.listeners = _teardownRef(@, ref)]
         /\ content' = l.content
         /\ _names' = l.names
  /\ last' = [NoLast EXCEPT !.op = "setRef", !.from = ref,
                             !.dropped = Len(content)]
  /\ scen' = 0
  /\ UNCHANGED <<remote, pushCount>>

\* set(peer, "ref", h) on the other instance: the same observers run, with
\* the same handler functions, which the two instances share.
PeerSetRef(h) ==
  /\ ListOp
  /\ h # peer.ref
  /\ \E l \in {IF h # Null THEN InitialChildren(_resetContent, remote[h], 1)
                         ELSE _resetContent} :
         peer' = [ref |-> h, content |-> l.content, names |-> l.names,
                  listeners |-> _setupRef(_teardownRef(peer.listeners, peer.ref), h)]
  /\ listeners' = _teardownRef(listeners, peer.ref)
  /\ last' = [NoLast EXCEPT !.op = "peerSetRef", !.from = peer.ref]
  /\ scen' = 0
  /\ UNCHANGED <<ref, content, _names, remote, pushCount>>

\* Mutant: the list is destroyed with its listeners left registered.
WillDestroy_NoTeardown ==
  /\ Step
  /\ isDestroyed' = TRUE
  /\ event' = NoEvent
  /\ last' = [NoLast EXCEPT !.op = "willDestroy", !.from = ref]
  /\ scen' = 0
  /\ UNCHANGED <<ref, content, _names, listeners, remote, pushCount, peer>>
  /\ UNCHANGED bindingVars

\* willDestroy: the hook Ember runs when the list is destroyed; it may also
\* be called again afterwards.
WillDestroy ==
  /\ Step
  /\ listeners' = _teardownRef(listeners, ref)
  /\ peer' = [peer EXCEPT !.listeners = _teardownRef(@, ref)]
  /\ isDestroyed' = TRUE
  /\ event' = NoEvent
  /\ last' = [NoLast EXCEPT !.op = "willDestroy", !.from = ref,
                             !.changed = (listeners' # listeners)]
  /\ scen' = 0
  /\ UNCHANGED <<ref, content, _names, remote, pushCount>>
  /\ UNCHANGED bindingVars

----------------------------------------------------------------------------
(* Firebase.List.replaceContent: a local edit becomes remote operations,   *)
(* which the location echoes to its listeners before each call returns.    *)

\* The state threaded through one call: the list, the children of baseRef,
\* the remote operations issued so far, the auto-names generated so far.
Call(l, rs, ops, count) == [l |-> l, rs |-> rs, ops |-> ops, count |-> count]

\* ref.child(childName).remove()
RemoveChild(st, regs, h, childName) ==
  LET op == [op |-> "remove", name |-> childName, val |-> NullValue]
  IN  IF childName \in RemoteNames(st.rs)
        THEN Call(Deliver(regs, h, "child_removed", st.l,
                          st.rs[PosOf(st.rs, childName)], Null),
                  Without(st.rs, childName), Append(st.ops, op), st.count)
        ELSE Call(st.l, st.rs, Append(st.ops, op), st.count)

\* ref.push().set(getFirebaseValue(object)): the new child is named after
\* all existing siblings.
PushChild(st, regs, h, object) ==
  LET name == PushNames[st.count + 1]
      snap == Snapshot(name, getFirebaseValue(object))
      rs   == Append(st.rs, snap)
      op   == [op |-> "push", name |-> name, val |-> snap.val]
  IN  Call(Deliver(regs, h, "child_added", st.l, snap, PrevName(rs, Len(rs))),
           rs, Append(st.ops, op), st.count + 1)

RECURSIVE RemoveEach(_, _, _, _)
RemoveEach(st, regs, h, childNames) ==
  IF childNames = <<>>
    THEN st
    ELSE RemoveEach(RemoveChild(st, regs, h, Head(childNames)), regs, h,
                    Tail(childNames))

RECURSIVE PushEach(_, _, _, _)
PushEach(st, regs, h, objects) ==
  IF objects = <<>>
    THEN st
    ELSE PushEach(PushChild(st, regs, h, Head(objects)), regs, h, Tail(objects))

\* Mutant: the names to remove are read from _names while the echoes of
\* the earlier removals shrink it.
RECURSIVE RemoveLive(_, _, _, _, _, _)
RemoveLive(st, regs, h, index, amount, k) ==
  IF k >= amount \/ index + k >= Len(st.l.names)
    THEN st
    ELSE RemoveLive(RemoveChild(st, regs, h, st.l.names[index + k + 1]),
                    regs, h, index, amount, k + 1)

replaceContent_Live(st, regs, baseRef, index, amount, objects) ==
  PushEach(RemoveLive(st, regs, baseRef, index, amount, 0), regs, baseRef, objects)

\* Mutant: the edit is also made on content itself.
replaceContent_Local(st, regs, baseRef, index, amount, objects) ==
  LET done == PushEach(RemoveEach(st, regs, baseRef,
                                  Slice(st.l.names, index, index + amount)),
                       regs, baseRef, objects)
  IN  [done EXCEPT !.l = List(Replace(done.l.content, index, amount, objects),
                              done.l.names)]

\* The body of replaceContent once baseRef is known to be set.
replaceContent(st, regs, baseRef, index, amount, objects) ==
  PushEach(RemoveEach(st, regs, baseRef, Slice(st.l.names, index, index + amount)),
           regs, baseRef, objects)

\* The arguments replaceContent is called with.
Indices     == 0..2
ObjectLists == {<<>>, <<2>>, <<ObjBase + 1>>, <<ObjBase + 1, 2>>}

\* The error replaceContent throws when baseRef is missing.
RefIsMissing == "ref is missing"

\* Mutant: the ref is not tested first, so that a call with nothing to
\* remove and nothing to add returns without an error.
ReplaceContent_LateGuard(index, amount, objects) ==
  LET baseRef == ref
      called  == [NoLast EXCEPT !.op = "replaceContent", !.h = baseRef,
                                !.index = index, !.amount = amount,
                                !.objects = objects]
  IN  /\ ListOp
      /\ scen' = 0
      /\ UNCHANGED <<ref, listeners, peer>>
      /\ IF baseRef = Null
           THEN /\ last' = [called EXCEPT !.error =
                                   IF amount = 0 /\ objects = <<>>
                                     THEN "none" ELSE RefIsMissing]
                /\ UNCHANGED <<content, _names, remote, pushCount>>
           ELSE /\ pushCount + Len(objects) <= MaxPush
                /\ \E st \in {replaceContent(
                               Call(List(content, _names), remote[baseRef], <<>>, pushCount),
                               listeners, baseRef, index, amount, objects)} :
                       /\ remote' = [remote EXCEPT ![baseRef] = st.rs]
                       /\ Children(remote') <= MaxRemote
                       /\ Len(st.l.content) <= MaxContent
                       /\ content' = st.l.content
                       /\ _names' = st.l.names
                       /\ pushCount' = st.count
                       /\ last' = [called EXCEPT !.ops = st.ops,
                                                 !.changed = (st.l # List(content, _names))]

ReplaceContent(index, amount, objects) ==
  LET baseRef == ref
      called  == [NoLast EXCEPT !.op = "replaceContent", !.h = baseRef,
                                !.index = index, !.amount = amount,
                                !.objects = objects]
  IN  /\ ListOp
      /\ scen' = 0
      /\ UNCHANGED <<ref, listeners, peer>>
      /\ IF baseRef = Null
           THEN /\ last' = [called EXCEPT !.error = RefIsMissing]
                /\ UNCHANGED <<content, _names, remote, pushCount>>
           ELSE /\ pushCount + Len(objects) <= MaxPush
                /\ \E st \in {replaceContent(
                               Call(List(content, _names), remote[baseRef], <<>>, pushCount),
                               listeners, baseRef, index, amount, objects)} :
                       /\ remote' = [remote EXCEPT ![baseRef] = st.rs]
                       /\ Children(remote') <= MaxRemote
                       /\ Len(st.l.content) <= MaxContent
                       /\ content' = st.l.content
                       /\ _names' = st.l.names
                       /\ pushCount' = st.count
                       /\ last' = [called EXCEPT !.ops = st.ops,
                                                 !.changed = (st.l # List(content, _names))]

----------------------------------------------------------------------------
(* A child event handed to the bound list whatever the location holds: a   *)
(* stale or duplicate notification.                                        *)

StaleEvent(type, name, val, prev) ==
  /\ Step
  /\ UNCHANGED isDestroyed
  /\ UNCHANGED bindingVars
  /\ event' = [name |-> name, val |-> val, prev |-> prev]
  /\ ref # Null
  /\ prev # name
  /\ type = "child_removed" => prev = Null
  /\ Emit(type, ref, Snapshot(name, val), IF type = "child_removed" THEN Null ELSE prev)
  /\ UNCHANGED <<ref, listeners, remote, pushCount>>

----------------------------------------------------------------------------
(* Firebase.Binding: the scheduler of a two-way (or one-way) binding.      *)
(* The binding is the record B the operators below take and return; the    *)
(* value at its ref and the bound properties of the objects are part of    *)
(* it, so that a whole flush of the "sync" queue is one operator.          *)

Owners        == {"o1", "o2"}
LocalValues   == {1, 2, ObjBase + 1}   \* what the application stores
ValuePayloads == PlainValues           \* what other clients write to the ref

\* _sync is scheduled without a snapshot by _pathDidChange: the argument is
\* undefined.
NoSnapshot == [name |-> Undefined, val |-> NullValue]

\* The error of calling val() on undefined.
TypeError == "TypeError"

\* new Firebase.Binding(path, ref), made one-way or not.
EmptyBinding(oneWay) ==
  [objects    |-> <<>>,
   observing  |-> FALSE,
   directions |-> [o \in Owners |-> Null],
   ignore     |-> FALSE,
   oneWay     |-> oneWay,
   queue      |-> <<>>,
   regs       |-> 0,
   observers  |-> {},
   local      |-> [o \in Owners |-> NullValue],
   remote     |-> NullValue,
   writes     |-> 0,
   log        |-> <<>>]

\* Ember.A().addObject(x) and removeObject(x).
addObject(s, x) == IF x \in Range(s) THEN s ELSE Append(s, x)

removeObject(s, x) == SelectSeq(s, LAMBDA y : y # x)

\* Mutant: the ref is observed again on every connect.
connect_AlwaysObserve(b, object) ==
  LET b1 == [b EXCEPT !.objects = addObject(@, object)]
      b2 == [b1 EXCEPT !.regs = @ + 1, !.observing = TRUE]
  IN  IF ~b2.oneWay THEN [b2 EXCEPT !.observers = @ \cup {object}] ELSE b2

\* Mutant: the path is observed in a one-way binding too.
connect_ObservePath(b, object) ==
  LET b1 == [b EXCEPT !.objects = addObject(@, object)]
      b2 == IF ~b1.observing
              THEN [b1 EXCEPT !.regs = @ + 1, !.observing = TRUE]
              ELSE b1
  IN  [b2 EXCEPT !.observers = @ \cup {object}]

connect(b, object) ==
  LET b1 == [b EXCEPT !.objects = addObject(@, object)]
      b2 == IF ~b1.observing
              THEN [b1 EXCEPT !.regs = @ + 1, !.observing = TRUE]
              ELSE b1
  IN  IF ~b2.oneWay THEN [b2 EXCEPT !.observers = @ \cup {object}] ELSE b2

\* Mutant: the pending direction of the object is kept.
disconnect_KeepDirection(b, object) ==
  LET b1 == [b EXCEPT !.objects = removeObject(@, object)]
      b2 == IF Len(b1.objects) = 0 /\ b1.observing
              THEN [b1 EXCEPT !.regs = Max(@ - 1, 0), !.observing = FALSE]
              ELSE b1
  IN  IF ~b2.oneWay THEN [b2 EXCEPT !.observers = @ \ {object}] ELSE b2

disconnect(b, object) ==
  LET b1 == [b EXCEPT !.objects = removeObject(@, object)]
      b2 == IF Len(b1.objects) = 0 /\ b1.observing
              THEN [b1 EXCEPT !.regs = Max(@ - 1, 0), !.observing = FALSE]
              ELSE b1
      b3 == IF ~b2.oneWay THEN [b2 EXCEPT !.observers = @ \ {object}] ELSE b2
  IN  [b3 EXCEPT !.directions[object] = Null]

\* Mutant: the direction asked for last replaces the pending one.
_scheduleSync_PushWins(b, direction, object, snapshot) ==
  LET existingDirection == b.directions[object]
      b1 == IF existingDirection = Null
              THEN [b EXCEPT !.queue = Append(@, [object |-> object,
                                                  snapshot |-> snapshot])]
              ELSE b
  IN  [b1 EXCEPT !.directions[object] = direction]

\* Ember.run.schedule('sync', this, this._sync, object, snapshot) appends the
\* call, with the arguments it is given, to the "sync" queue.
_scheduleSync(b, direction, object, snapshot) ==
  LET existingDirection == b.directions[object]
      b1 == IF existingDirection = Null
              THEN [b EXCEPT !.queue = Append(@, [object |-> object,
                                                  snapshot |-> snapshot]),
                             !.directions[object] = direction]
              ELSE b
  IN  IF existingDirection = "push" /\ direction = "pull"
        THEN [b1 EXCEPT !.directions[object] = "pull"]
        ELSE b1

\* Mutant: a push is scheduled for the first connected object as well.
_pathDidChange_FirstToo(b, object) ==
  _scheduleSync(_scheduleSync(b, "push", object, NoSnapshot),
                "push", Head(b.objects), NoSnapshot)

_pathDidChange(b, object) == _scheduleSync(b, "push", object, NoSnapshot)

\* this._objects.forEach(... _scheduleSync('pull', object, snapshot) ...)
RECURSIVE SchedulePulls(_, _, _)
SchedulePulls(b, objects, snapshot) ==
  IF objects = <<>>
    THEN b
    ELSE SchedulePulls(_scheduleSync(b, "pull", Head(objects), snapshot),
                       Tail(objects), snapshot)

\* Mutant: the flag _ignoreRefChanges is not looked at.
_refDidChange_NoIgnore(b, snapshot) ==
  SchedulePulls(b, b.objects, snapshot)

_refDidChange(b, snapshot) ==
  IF b.ignore THEN b ELSE SchedulePulls(b, b.objects, snapshot)

\* A "value" event of the ref: the handler runs when it is registered.
ValueEvent(b, snapshot) ==
  IF b.regs > 0 THEN _refDidChange(b, snapshot) ELSE b

\* Mutant: the observer is not suspended.
_suspendObserver_None(observers, object) == observers

\* Ember._suspendObserver(object, path, this, this._pathDidChange, fn): the
\* observers that are active while fn runs.
_suspendObserver(observers, object) == observers \ {object}

\* Ember.trySet(object, path, value): a changed value notifies the observer
\* of the path, if it is among the active ones.
trySet(b, object, value, active) ==
  LET b1 == [b EXCEPT !.local[object] = value]
  IN  IF value # b.local[object] /\ object \in active
        THEN _pathDidChange(b1, object)
        ELSE b1

\* ref.set(value): the write is issued; unless it fails, the location takes
\* the value and raises its "value" event before set() returns.  A failure
\* is reported to the completion callback, which the binding does not pass.
RefSet(b, value, fail) ==
  LET b1 == [b EXCEPT !.writes = @ + 1]
  IN  IF fail
        THEN b1
        ELSE ValueEvent([b1 EXCEPT !.remote = value], Snapshot("value", value))

\* What one call of _sync did: the direction it found, the value it wrote to
\* the object (pull) or to the ref (push), the error it raised.
Logged(b, object, direction, value, error, failed) ==
  [b EXCEPT !.log = Append(@, [object |-> object, direction |-> direction,
                               value |-> value, error |-> error,
                               failed |-> failed])]

\* Mutant: the flag _ignoreRefChanges is left set after the write.
Push_NoReset(b, object, fail) ==
  LET value == getFirebaseValue(b.local[object])
      b1    == [b EXCEPT !.ignore = TRUE]
      b2    == RefSet(b1, value, fail)
  IN  Logged(b2, object, "push", value, "none", fail)

\* Mutant: a failed write is issued a second time.
Push_Retry(b, object, fail) ==
  LET value == getFirebaseValue(b.local[object])
      b1    == [b EXCEPT !.ignore = TRUE]
      b2    == RefSet(b1, value, fail)
      b3    == IF fail THEN RefSet(b2, value, FALSE) ELSE b2
      b4    == [b3 EXCEPT !.ignore = FALSE]
  IN  Logged(b4, object, "push", value, "none", fail)

\* The push branch of _sync.
Push(b, object, fail) ==
  LET value == getFirebaseValue(b.local[object])
      b1    == [b EXCEPT !.ignore = TRUE]
      b2    == RefSet(b1, value, fail)
      b3    == [b2 EXCEPT !.ignore = FALSE]
  IN  Logged(b3, object, "push", value, "none", fail)

\* Mutant: the observer of the path stays active during the write.
Pull_Observed(b, object, snapshot) ==
  IF snapshot = NoSnapshot
    THEN Logged(b, object, "pull", NullValue, TypeError, FALSE)
    ELSE LET value == getSnapshotValue(snapshot)
         IN  Logged(trySet(b, object, value, b.observers),
                    object, "pull", value, "none", FALSE)

\* The pull branch of _sync.  createValueFromSnapshot is getSnapshotValue,
\* which calls snapshot.val(): a TypeError when the call of _sync was
\* scheduled without a snapshot.
Pull(b, object, snapshot) ==
  IF snapshot = NoSnapshot
    THEN Logged(b, object, "pull", NullValue, TypeError, FALSE)
    ELSE LET value  == getSnapshotValue(snapshot)
             active == IF b.oneWay
                         THEN b.observers
                         ELSE _suspendObserver(b.observers, object)
         IN  Logged(trySet(b, object, value, active),
                    object, "pull", value, "none", FALSE)

\* Mutant: the direction found is left in the map.
_sync_NoRemove(b, object, snapshot, fail) ==
  LET direction == b.directions[object]
  IN  CASE direction = "pull" -> Pull(b, object, snapshot)
        [] direction = "push" -> Push(b, object, fail)
        [] OTHER              -> Logged(b, object, "none", NullValue, "none", FALSE)

\* One scheduled call of _sync, for an object that is not destroyed.
_sync(b, object, snapshot, fail) ==
  LET direction == b.directions[object]
      b1        == [b EXCEPT !.directions[object] = Null]
  IN  CASE direction = "pull" -> Pull(b1, object, snapshot)
        [] direction = "push" -> Push(b1, object, fail)
        [] OTHER              -> Logged(b1, object, "none", NullValue, "none", FALSE)

\* The run loop flushes the "sync" queue: the scheduled calls run in order,
\* those scheduled meanwhile included, until the queue is empty.  An error
\* ends the call that raised it.  The remote writes of the objects in fails
\* fail.
RECURSIVE Flush(_, _)
Flush(b, fails) ==
  IF b.queue = <<>>
    THEN b
    ELSE LET e == Head(b.queue)
         IN  Flush(_sync([b EXCEPT !.queue = Tail(@)], e.object, e.snapshot,
                         e.object \in fails),
                   fails)

\* The binding as the variables hold it.
Binding ==
  [objects    |-> _objects,
   observing  |-> _observingRef,
   directions |-> _directionMap,
   ignore     |-> _ignoreRefChanges,
   oneWay     |-> _oneWay,
   queue      |-> syncQueue,
   regs       |-> valueListeners,
   observers  |-> pathObservers,
   local      |-> localValue,
   remote     |-> remoteValue,
   writes     |-> writes,
   log        |-> flushed]

IsBinding(b) ==
  /\ _objects = b.objects
  /\ _observingRef = b.observing
  /\ _directionMap = b.directions
  /\ _ignoreRefChanges = b.ignore
  /\ _oneWay = b.oneWay
  /\ syncQueue = b.queue
  /\ valueListeners = b.regs
  /\ pathObservers = b.observers
  /\ localValue = b.local
  /\ remoteValue = b.remote
  /\ writes = b.writes
  /\ flushed = b.log

Becomes(b) ==
  /\ _objects' = b.objects
  /\ _observingRef' = b.observing
  /\ _directionMap' = b.directions
  /\ _ignoreRefChanges' = b.ignore
  /\ _oneWay' = b.oneWay
  /\ syncQueue' = b.queue
  /\ valueListeners' = b.regs
  /\ pathObservers' = b.observers
  /\ localValue' = b.local
  /\ remoteValue' = b.remote
  /\ writes' = b.writes
  /\ flushed' = b.log

\* An operation on the binding: no list takes part.
BindingOp ==
  /\ steps < MaxOps
  /\ steps' = steps + 1
  /\ UNCHANGED listVars

Called(op, object) == [NoLast EXCEPT !.op = op, !.object = object]

Connect(object) ==
  /\ BindingOp
  /\ Becomes(connect(Binding, object))
  /\ last' = Called("connect", object)
  /\ UNCHANGED <<latest, localChanges>>

Disconnect(object) ==
  /\ BindingOp
  /\ Becomes(disconnect(Binding, object))
  /\ last' = Called("disconnect", object)
  /\ UNCHANGED <<latest, localChanges>>

\* The application sets the bound property of an object to another value.
LocalChange(object, value) ==
  /\ BindingOp
  /\ value # localValue[object]
  /\ Becomes(trySet(Binding, object, value, pathObservers))
  /\ localChanges' = localChanges + 1
  /\ last' = Called("set", object)
  /\ UNCHANGED latest

\* The ref raises a "value" event with payload value: another client wrote
\* it, or the location repeats its value (the first event after on(), or the
\* echo of a write, arriving in a turn of its own).
RemoteValue(value) ==
  /\ BindingOp
  /\ Becomes(ValueEvent([Binding EXCEPT !.remote = value], Snapshot("value", value)))
  /\ latest' = IF valueListeners > 0 THEN Snapshot("value", value) ELSE latest
  /\ last' = [Called("value", Null) EXCEPT !.delivered = (valueListeners > 0)]
  /\ UNCHANGED localChanges

\* The checkpoint: the run loop flushes the "sync" queue.
Checkpoint(fails) ==
  /\ BindingOp
  /\ syncQueue # <<>>
  /\ Becomes(Flush([Binding EXCEPT !.log = <<>>], fails))
  /\ last' = Called("sync", Null)
  /\ UNCHANGED <<latest, localChanges>>

----------------------------------------------------------------------------
(* The state after List.create() or List.create({ ref: r }) on locations   *)
(* that hold no children yet.                                              *)

\* No object is connected to the binding and nothing has happened to it.
NoBinding ==
  /\ IsBinding(EmptyBinding(FALSE))
  /\ latest = NoSnapshot
  /\ localChanges = 0

Init ==
  /\ ref \in Refs \cup {Null}
  /\ content = <<>>
  /\ _names = <<>>
  /\ listeners = _setupRef({}, ref)
  /\ isDestroyed = FALSE
  /\ event = NoEvent
  /\ peer = NoPeer
  /\ NoBinding
  /\ steps = 0
  /\ remote = [h \in Refs |-> <<>>]
  /\ pushCount = 0
  /\ last = NoLast
  /\ scen = 0

----------------------------------------------------------------------------

\* Changes made to the locations H by any client.
RemoteEvent(H, N) ==
  \/ \E h \in H, name \in N, val \in PlainValues, pos \in 0..MaxRemote :
       RemoteAdd(h, name, val, pos)
  \/ \E h \in H, name \in N \cup Range(PushNames), val \in PlainValues :
       RemoteChange(h, name, val)
  \/ \E h \in H, name \in N \cup Range(PushNames) :
       RemoteRemove(h, name)
  \/ \E h \in H, name \in N \cup Range(PushNames), pos \in 0..MaxRemote :
       RemoteMove(h, name, pos)

\* A list that is bound and rebound among two locations, each changed by
\* other clients.
Next ==
  \/ RemoteEvent(Refs, ChildNames)
  \/ \E h \in Refs \cup {Null} : SetRef(h)

Spec == Init /\ [][Next]_vars

\* A list on one location, edited locally with the MutableArray methods
\* while other clients change the location.
InitEdit == Init /\ ref \in OneRef \cup {Null}

NextEdit ==
  \/ RemoteEvent(OneRef, EditNames)
  \/ \E h \in OneRef \cup {Null} : SetRef(h)
  \/ \E index \in Indices, amount \in Indices, objects \in ObjectLists :
       ReplaceContent(index, amount, objects)

SpecEdit == InitEdit /\ [][NextEdit]_vars

\* A list on one location, edited locally while other clients add children
\* to the location.
NextLocalEdit ==
  \/ \E h \in OneRef, name \in EditNames, val \in PlainValues, pos \in 0..MaxRemote :
       RemoteAdd(h, name, val, pos)
  \/ \E h \in OneRef \cup {Null} : SetRef(h)
  \/ \E index \in Indices, amount \in Indices, objects \in ObjectLists :
       ReplaceContent(index, amount, objects)

SpecLocalEdit == InitEdit /\ [][NextLocalEdit]_vars

\* A list on one location that also receives stale and duplicate
\* notifications.
NextStale ==
  \/ RemoteEvent(OneRef, EditNames)
  \/ \E h \in OneRef \cup {Null} : SetRef(h)
  \/ \E type \in EventTypes, name \in EditNames, val \in PlainValues,
        prev \in EditNames \cup {Null} :
       StaleEvent(type, name, val, prev)

SpecStale == InitEdit /\ [][NextStale]_vars

\* A list on a location that Firebase.Array has written to: its children
\* include the marker key.
NextMarker ==
  \/ \E h \in OneRef \cup {Null} : SetRef(h)
  \/ \E type \in EventTypes, name \in MarkerNames, val \in PlainValues,
        prev \in MarkerNames \cup {Null} :
       StaleEvent(type, name, val, prev)

SpecMarker == InitEdit /\ [][NextMarker]_vars

\* A list that is bound, rebound and at some time destroyed, while other
\* clients change the locations.
NextRelease ==
  \/ RemoteEvent(Refs, EditNames)
  \/ \E h \in Refs \cup {Null} : SetRef(h)
  \/ WillDestroy

SpecRelease == Init /\ [][NextRelease]_vars

\* A list that loads the children of its location, while other clients
\* add children after the last one and remove children.
NextAppend ==
  \/ \E h \in OneRef, name \in ChildNames, val \in PlainValues :
       RemoteAdd(h, name, val, Len(remote[h]))
  \/ \E h \in OneRef, name \in ChildNames : RemoteRemove(h, name)
  \/ \E h \in OneRef \cup {Null} : SetRef(h)

SpecAppend == InitEdit /\ [][NextAppend]_vars

\* Two lists that are bound and rebound among the same locations, one of
\* them destroyed at some time, while other clients change the locations.
NextPeers ==
  \/ RemoteEvent(Refs, EditNames)
  \/ \E h \in Refs \cup {Null} : SetRef(h)
  \/ \E h \in Refs \cup {Null} : PeerSetRef(h)
  \/ WillDestroy

SpecPeers == Init /\ [][NextPeers]_vars

\* A binding made by Firebase.bind or Firebase.oneWay, or with new
\* Firebase.Binding and connect, for one or two objects; no list is used.
InitBinding ==
  /\ ref = Null
  /\ content = <<>>
  /\ _names = <<>>
  /\ listeners = {}
  /\ isDestroyed = FALSE
  /\ event = NoEvent
  /\ peer = NoPeer
  /\ remote = [h \in Refs |-> <<>>]
  /\ pushCount = 0
  /\ last = NoLast
  /\ scen = 0
  /\ steps = 0
  /\ latest = NoSnapshot
  /\ localChanges = 0
  /\ \E oneWay \in BOOLEAN :
       \/ IsBinding(EmptyBinding(oneWay))
       \/ IsBinding(connect(EmptyBinding(oneWay), "o1"))
       \/ IsBinding(connect(connect(EmptyBinding(oneWay), "o1"), "o2"))

NextBinding ==
  \/ \E object \in Owners : Connect(object)
  \/ \E object \in Owners : Disconnect(object)
  \/ \E object \in Owners, value \in LocalValues : LocalChange(object, value)
  \/ \E value \in ValuePayloads : RemoteValue(value)
  \/ \E fails \in SUBSET Owners : Checkpoint(fails)

SpecBinding == InitBinding /\ [][NextBinding]_vars

----------------------------------------------------------------------------
(* Properties of the ordered collection.                                   *)

IsEvent(op) == op \in EventTypes

\* The values the list is meant to show for the children rs.
ValuesOf(rs) == [i \in 1..Len(rs) |-> createValueFromSnapshot(rs[i])]

NamesOf(rs) == [i \in 1..Len(rs) |-> rs[i].name]

\* C1: after any sequence of child events consistent with the remote sibling
\* order, the content of a bound list is the remote children's values in
\* the remote sibling order.
C1_ContentInRemoteOrder ==
  ref # Null => content = ValuesOf(remote[ref])

\* C2: content and _names have the same length, and _names[i] names the
\* remote child whose value is content[i].
C2_NamesAligned ==
  /\ Len(content) = Len(_names)
  /\ ref # Null =>
       \A i \in 1..Len(_names) :
         \E j \in 1..Len(remote[ref]) :
           /\ remote[ref][j].name = _names[i]
           /\ createValueFromSnapshot(remote[ref][j]) = content[i]

\* C3: no name occurs at two positions of _names.
C3_NamesUnique ==
  \A i, j \in 1..Len(_names) : _names[i] = _names[j] => i = j

\* C4: from an empty bound list, added(a,1,null), added(b,2,a), moved(a,b),
\* removed(b) give content [1], [1,2], [2,1], [1] and _names [a], [a,b],
\* [b,a], [a].
C4_Scenario ==
  /\ scen = 1 => content = <<1>> /\ _names = <<"a">>
  /\ scen = 2 => content = <<1, 2>> /\ _names = <<"a", "b">>
  /\ scen = 3 => content = <<2, 1>> /\ _names = <<"b", "a">>
  /\ scen = 4 => content = <<1>> /\ _names = <<"a">>

C4_Witness == scen = 4

\* C5: a child_removed event for a name that is not in _names leaves
\* content and _names unchanged; so once a child_removed has taken a name
\* out of _names, the same event again changes nothing.
C5_RemovedUnknownIsNoOp ==
  /\ (last.op = "child_removed" /\ last.delivered /\ ~last.known) => ~last.changed
  /\ \A name \in ChildNames \cup Range(PushNames) :
       LET once == childWasRemoved(List(content, _names), Snapshot(name, 1))
       IN  name \notin Range(once.names) =>
             childWasRemoved(once, Snapshot(name, 1)) = once

\* A child_removed event reached a bound list that holds other elements but
\* not the event's name.
C5_Witness ==
  /\ last.op = "child_removed" /\ last.delivered /\ ~last.known
  /\ _names # <<>>

\* C6, as claimed: a child_changed or child_moved event whose own name is
\* not in the list is ignored: content and _names stay as they were.
C6_StaleChangeIgnored ==
  (last.op \in {"child_changed", "child_moved"} /\ last.delivered /\ ~last.known)
    => ~last.changed

\* C6, amended: a child_changed or child_moved event whose own name is not
\* in the list is not ignored.  The handler runs as for a known name: the
\* event's name is in _names afterwards, child_moved makes content one
\* longer, child_changed writes into the slot after the preceding sibling
\* (content keeps its length or grows by one); no error is raised.
C6_StaleChangeApplied ==
  [][(last'.op \in {"child_changed", "child_moved"} /\ last'.delivered /\ ~last'.known)
       => /\ \E name \in Range(_names') : name \notin Range(_names)
          /\ Len(_names') \in {Len(_names), Len(_names) + 1}
          /\ Len(content') \in {Len(content), Len(content) + 1}
          /\ last'.op = "child_moved" => Len(content') = Len(content) + 1
          /\ last'.error = "none"]_vars

\* A child_changed event for a name the list does not hold was applied to a
\* list that holds another element.
C6_Witness ==
  /\ last.op = "child_changed" /\ last.delivered /\ ~last.known
  /\ last.changed
  /\ Len(_names) >= 2

ExpectedOps(names, count, index, amount, objects) ==
  LET n == Max(Min(index + amount, Len(names)) - index, 0)
  IN  [k \in 1..n |-> [op |-> "remove", name |-> names[index + k], val |-> NullValue]]
      \o [k \in 1..Len(objects) |->
            [op |-> "push", name |-> PushNames[count + k],
             val |-> getFirebaseValue(objects[k])]]

\* C8: on a bound list, replaceContent issues exactly one remote remove for
\* each name that was at the replaced positions when it was called, although
\* the echoes shrink _names during the call, and then one auto-named push
\* per inserted object, in order; nothing else.
C8_EditOps ==
  [][(last'.op = "replaceContent" /\ ref # Null)
       => last'.ops = ExpectedOps(_names, pushCount, last'.index, last'.amount,
                                  last'.objects)]_vars

\* A call removed two elements, each echoed, and pushed two objects.
C8_Witness ==
  /\ last.op = "replaceContent" /\ ref # Null
  /\ Len(last.ops) = 4
  /\ last.ops[1].op = "remove" /\ last.ops[2].op = "remove"
  /\ last.ops[3].op = "push" /\ last.ops[4].op = "push"
  /\ last.changed

\* The elements of s that are not at the positions index .. index+amount-1.
Kept(s, index, amount) ==
  SubSeq(s, 1, Min(index, Len(s))) \o SubSeq(s, index + amount + 1, Len(s))

\* What C9 says of one call: the list it leaves is the previous list
\* without the replaced elements, followed by the inserted values, stored
\* as getFirebaseValue gives them, under the names push generated.
EditResult ==
  /\ content' = Kept(content, last'.index, last'.amount)
                  \o [k \in 1..Len(last'.objects) |->
                        getFirebaseValue(last'.objects[k])]
  /\ _names' = Kept(_names, last'.index, last'.amount)
                  \o [k \in 1..Len(last'.objects) |-> PushNames[pushCount + k]]

\* C9: with a remote that echoes synchronously and names pushed children
\* after all siblings, after replaceContent the list is the previous list
\* without the replaced elements, followed by the inserted values in
\* insertion order, whatever the index; content and _names stay aligned.
C9_EditResult ==
  [][(last'.op = "replaceContent" /\ ref # Null)
       => /\ EditResult
          /\ C2_NamesAligned => C2_NamesAligned']_vars

\* The same result for the calls made on a list whose content and _names
\* are aligned: this holds, so that C9 fails only from lists the overwritten
\* names of childWasAdded have left misaligned.
EditResultWhenAligned ==
  [][(last'.op = "replaceContent" /\ ref # Null /\ C2_NamesAligned)
       => (EditResult /\ C2_NamesAligned')]_vars

\* C10: after a rebind no listener is left on the old location, the list
\* holds exactly what the new location delivered on binding, and an event of
\* another location than the bound one does not change the list.
C10_Rebind ==
  /\ \A l \in listeners : l.ref = ref
  /\ last.op = "setRef" =>
       /\ content = IF ref = Null THEN <<>> ELSE ValuesOf(remote[ref])
       /\ _names = IF ref = Null THEN <<>> ELSE NamesOf(remote[ref])
  /\ (IsEvent(last.op) /\ last.h # ref) => ~last.changed

\* A list holding elements of one location was rebound to another location
\* that has children.
C10_Witness ==
  /\ last.op = "setRef" /\ last.from \in Refs /\ ref \in Refs
  /\ last.dropped > 0
  /\ content # <<>>

----------------------------------------------------------------------------
(* Properties of release and of the binding scheduler.                     *)

\* C11: willDestroy leaves none of the list's four child-event listeners
\* registered, on any location, and none is registered afterwards; on a list
\* without a ref and on a list already released it raises no error and
\* changes nothing.
C11_Release ==
  /\ [](isDestroyed => listeners = {})
  /\ [][last'.op = "willDestroy"
          => /\ listeners' = {}
             /\ last'.error = "none"
             /\ UNCHANGED <<ref, content, _names, remote, pushCount>>
             /\ (ref = Null \/ isDestroyed) => UNCHANGED listeners]_vars

\* A list that holds elements of its location was released a second time.
C11_Witness ==
  /\ last.op = "willDestroy" /\ ~last.changed
  /\ ref \in Refs /\ content # <<>>

\* C12: after any sequence of connect and disconnect calls the "value"
\* listener of the binding is registered exactly once when an object is
\* connected and not at all when none is.
C12_ListenerOnce ==
  valueListeners = IF _objects # <<>> THEN 1 ELSE 0

\* An object that was connected already was connected again.
C12_Witness ==
  /\ steps = 1 /\ last.op = "connect" /\ last.object = "o1"
  /\ _objects = <<"o1", "o2">>

\* The calls of _sync, among those logged, that found a direction for the
\* object.
Applied(log, object) ==
  SelectSeq(log, LAMBDA r : r.object = object /\ r.direction # "none")

PullOf(object, value) ==
  [object |-> object, direction |-> "pull", value |-> value, error |-> "none",
   failed |-> FALSE]

\* A push and then a pull were asked for the object: the call of _sync was
\* scheduled without a snapshot and the direction is now pull.
PushThenPull(object) ==
  /\ _directionMap[object] = "pull"
  /\ \E i \in 1..Len(syncQueue) :
       syncQueue[i] = [object |-> object, snapshot |-> NoSnapshot]

\* C13: when a push and then a pull are scheduled for an object before a
\* checkpoint, the checkpoint applies exactly one pull for it: the remote
\* payload is written to its property, no remote write is issued for it and
\* no error is raised.
C13_PushThenPull ==
  [][\A object \in Owners :
       (last'.op = "sync" /\ PushThenPull(object))
         => /\ Applied(flushed', object) = <<PullOf(object, getSnapshotValue(latest))>>
            /\ localValue'[object] = getSnapshotValue(latest)]_vars

\* C14: a pull applied at a checkpoint writes the payload of the latest
\* value event received before the checkpoint, also when several were
\* received since the checkpoint before.
C14_LatestPayload ==
  last.op = "sync" =>
    \A i \in 1..Len(flushed) :
      (flushed[i].direction = "pull" /\ flushed[i].error = "none")
        => flushed[i].value = getSnapshotValue(latest)

Pushes(log) == {i \in 1..Len(log) : log[i].direction = "push"}

\* C15: in a two-way binding the write a pull makes to the property does
\* not schedule a push: the checkpoint leaves the object without a pending
\* direction, the queue empty, and issues no remote write for an object
\* whose direction was pull; the observer of the path is active again
\* afterwards, so that a later change of the property schedules a push.
C15_PullDoesNotPush ==
  [][/\ (last'.op = "sync" /\ ~_oneWay)
          => /\ \A object \in Owners :
                  _directionMap[object] = "pull"
                    => /\ _directionMap'[object] = Null
                       /\ \A i \in Pushes(flushed') : flushed'[i].object # object
             /\ syncQueue' = <<>>
             /\ writes' = writes + Cardinality(Pushes(flushed'))
             /\ pathObservers' = pathObservers
     /\ (last'.op = "set" /\ ~_oneWay /\ last'.object \in Range(_objects)
           /\ _directionMap[last'.object] = Null)
          => /\ _directionMap'[last'.object] = "push"
             /\ syncQueue' = Append(syncQueue, [object |-> last'.object,
                                                snapshot |-> NoSnapshot])]_vars

\* The first value event was pulled into the property of o1, which the
\* write changed, in a two-way binding.
C15_Witness ==
  /\ steps = 2 /\ last.op = "sync" /\ ~_oneWay
  /\ flushed # <<>> /\ flushed[1] = PullOf("o1", localValue["o1"])
  /\ localValue["o1"] # NullValue

\* C16: every remote write answers a change the application made to a
\* property: a write echoed back unchanged causes no further write, whether
\* the echo arrives inside the write (it schedules nothing: the flush runs
\* the calls that were scheduled before it, and leaves the queue empty) or in
\* a later turn (the pull it schedules writes the property only).
C16_NoOscillation ==
  /\ [](writes <= localChanges)
  /\ [][last'.op = "sync"
          => /\ Len(flushed') = Len(syncQueue)
             /\ syncQueue' = <<>>]_vars

\* One change of a property was pushed, its echo arrived as a later value
\* event and was pulled: one remote write in all.
C16_Witness ==
  /\ last.op = "sync" /\ ~_oneWay
  /\ writes = 1 /\ localChanges = 1
  /\ flushed = <<PullOf("o1", 1)>>
  /\ remoteValue = 1 /\ localValue["o1"] = 1
  /\ steps = 4

C19_DisconnectCancels ==
  /\ [](\A object \in Owners \ Range(_objects) : _directionMap[object] = Null)
  /\ [][last'.op = "sync"
          => \A object \in Owners \ Range(_objects) :
               /\ Applied(flushed', object) = <<>>
               /\ localValue'[object] = localValue[object]]_vars

\* The checkpoint ran a call of _sync scheduled for an object that was
\* disconnected since.
C19_Witness ==
  /\ last.op = "sync"
  /\ \E i \in 1..Len(flushed) :
       /\ flushed[i].object \notin Range(_objects)
       /\ flushed[i].direction = "none"

\* C20: a value event received gives every connected object the direction
\* pull, an object with a pending push included, and the next checkpoint
\* writes the property of every connected object.
C20_RemoteChangePullsAll ==
  [][/\ (last'.op = "value" /\ last'.delivered)
          => \A object \in Range(_objects) : _directionMap'[object] = "pull"
     /\ last'.op = "sync"
          => \A object \in Range(_objects) :
               _directionMap[object] = "pull"
                 => \E i \in 1..Len(flushed') :
                      /\ flushed'[i] = PullOf(object, localValue'[object])]_vars

\* C21: a binding that is one-way from the start never writes to the ref,
\* whatever is connected, disconnected, changed and flushed; a change of a
\* property creates no pending direction; the value at the ref changes only
\* through the ref.
C21_OneWay ==
  /\ [](_oneWay => /\ writes = 0
                   /\ pathObservers = {}
                   /\ \A object \in Owners : _directionMap[object] # "push")
  /\ [][(_oneWay /\ last'.op = "set") => UNCHANGED <<_directionMap, syncQueue>>]_vars
  /\ [][(_oneWay /\ remoteValue' # remoteValue) => last'.op = "value"]_vars

\* In a one-way binding that has pulled a value, the application changed
\* the property of a connected object.
C21_Witness ==
  /\ _oneWay /\ last.op = "set" /\ last.object \in Range(_objects)
  /\ flushed # <<>> /\ flushed[1].direction = "pull"

\* C22: a push whose write fails is not tried again: the checkpoint issues
\* one write per push and leaves nothing pending, no write is issued outside
\* a checkpoint, and a push becomes pending only through a change of the
\* property; the property keeps the value that was pushed.
C22_NoRetryNoRollback ==
  [][/\ last'.op = "sync"
          => /\ writes' = writes + Cardinality(Pushes(flushed'))
             /\ syncQueue' = <<>>
             /\ \A object \in Owners : _directionMap'[object] = Null
             /\ \A i \in Pushes(flushed') :
                  flushed'[i].failed
                    => /\ localValue'[flushed'[i].object] = localValue[flushed'[i].object]
                       /\ flushed'[i].value
                            = getFirebaseValue(localValue'[flushed'[i].object])
     /\ last'.op # "sync" => writes' = writes
     /\ \A object \in Owners :
          (_directionMap'[object] = "push" /\ _directionMap[object] # "push")
            => (last'.op = "set" /\ last'.object = object)]_vars

\* The write of a push failed: the ref keeps its value, the property the
\* value that was pushed.
C22_Witness ==
  /\ last.op = "sync"
  /\ flushed # <<>> /\ flushed[1].direction = "push" /\ flushed[1].failed
  /\ localValue[flushed[1].object] = ObjBase + 1
  /\ remoteValue = NullValue
  /\ writes = 1

\* The list before a handler runs is well formed: one name per element, no
\* name twice.
WellFormed ==
  /\ Len(content) = Len(_names)
  /\ Cardinality(Range(_names)) = Len(_names)

\* A handler of the bound list was handed the event recorded in event'.
Handled(type) == last'.op = type /\ last'.delivered /\ event'.name # Null

\* How often a value occurs in a sequence.
Count(s, v) == Cardinality({i \in 1..Len(s) : s[i] = v})

\* C23: a child_added event for a new name, with no preceding sibling or one
\* the list holds, inserts the name and the value at the index after the
\* preceding sibling (0 for none) in both sequences: both are one longer and
\* what they held keeps its order.
C23_AddedInserts ==
  [][(/\ Handled("child_added") /\ ~last'.known /\ WellFormed
      /\ event'.prev # Null => event'.prev \in Range(_names))
       => LET index == _indexAfter(_names, event'.prev)
          IN  /\ _names' = Replace(_names, index, 0, <<event'.name>>)
              /\ content' = Replace(content, index, 0, <<event'.val>>)]_vars

\* C24: a child_changed event for a name the list holds replaces the value
\* in the slot of that name and nothing else, whatever preceding sibling the
\* event carries.
C24_ChangedOneSlot ==
  [][(Handled("child_changed") /\ last'.known /\ WellFormed)
       => /\ _names' = _names
          /\ content' = Replace(content, IndexOf(_names, event'.name), 1,
                                <<event'.val>>)]_vars

\* C25: a child_moved event for a name the list holds, carrying the value
\* the list holds for it and no preceding sibling or one the list holds,
\* keeps the length, the set of names and the multiset of values; the moved
\* element is after the preceding sibling (at index 0 for none) in both
\* sequences, which stay aligned.
C25_MovedKeepsElements ==
  [][(/\ Handled("child_moved") /\ last'.known /\ WellFormed
      /\ event'.val = content[IndexOf(_names, event'.name) + 1]
      /\ event'.prev # Null => event'.prev \in Range(_names))
       => LET rest  == Replace(_names, IndexOf(_names, event'.name), 1, <<>>)
              index == _indexAfter(rest, event'.prev)
          IN  /\ Len(content') = Len(content)
              /\ Len(_names') = Len(_names)
              /\ Range(_names') = Range(_names)
              /\ \A v \in Range(content) \cup Range(content') :
                   Count(content', v) = Count(content, v)
              /\ _names'[index + 1] = event'.name
              /\ content'[index + 1] = event'.val]_vars

\* C27: a child_added event whose preceding sibling is not null and not in
\* _names puts the value at index 0 of content, before what content held,
\* and the name at index 0 of _names.
C27_UnknownPrecedingFirst ==
  [][(/\ Handled("child_added")
      /\ event'.prev # Null /\ event'.prev \notin Range(_names))
       => /\ content' = <<event'.val>> \o content
          /\ _names'[1] = event'.name]_vars

\* A child_added event naming a preceding sibling the list does not hold
\* reached a list that holds an element.
C27_Witness ==
  /\ last.op = "child_added" /\ last.delivered
  /\ event.prev # Null /\ event.prev \notin Range(_names)
  /\ Len(content) = 2 /\ content[1] = event.val /\ _names[1] = event.name

\* C26: the removal and the insertion of a child_moved event are one step of
\* the list: the step leads from the list before the event to the list with
\* the element removed and added again, so the state any other operation
\* starts from holds the moved name and value.
C26_MoveInOneTurn ==
  /\ [][Handled("child_moved")
          => LET snapshot == Snapshot(event'.name, event'.val)
                 removed  == childWasRemoved(List(content, _names), snapshot)
             IN  List(content', _names') = childWasAdded(removed, snapshot, event'.prev)]_vars
  /\ []((last.op = "child_moved" /\ last.delivered /\ event.name # Null)
          => (event.name \in Range(_names) /\ event.val \in Range(content)))

\* A child_moved event for a name the list holds has moved the element
\* among others.
C26_Witness ==
  /\ last.op = "child_moved" /\ last.delivered /\ last.known /\ last.changed
  /\ event.name # Null /\ event.prev # Null
  /\ Len(content) >= 2

\* A pull is pending for the object, scheduled with the latest value event.
PullPending(object) ==
  /\ _directionMap[object] = "pull"
  /\ latest # NoSnapshot
  /\ SelectSeq(syncQueue, LAMBDA e : e.object = object)
       = <<[object |-> object, snapshot |-> latest]>>

\* C28: a change of the property of an object whose pull is pending leaves
\* the direction pull and schedules nothing; the checkpoint then applies
\* one pull for the object, which writes the remote payload over the local
\* change, and issues no remote write for it.
C28_PullThenPush ==
  [][\A object \in Owners :
       /\ (last'.op = "set" /\ last'.object = object /\ _directionMap[object] = "pull")
            => /\ _directionMap' = _directionMap
               /\ syncQueue' = syncQueue
               /\ writes' = writes
       /\ (last'.op = "sync" /\ PullPending(object))
            => /\ Applied(flushed', object) = <<PullOf(object, getSnapshotValue(latest))>>
               /\ localValue'[object] = getSnapshotValue(latest)
               /\ (\A e \in Range(syncQueue) : e.object = object) => writes' = writes]_vars

\* A value event, then a change of the property of o1, then the checkpoint:
\* one pull was applied, the property holds the remote payload, nothing was
\* written to the ref.
C28_Witness ==
  /\ ~_oneWay /\ steps = 3 /\ last.op = "sync"
  /\ localChanges = 1 /\ localValue["o2"] = NullValue
  /\ flushed = <<PullOf("o1", 1)>>
  /\ localValue["o1"] = 1 /\ remoteValue = 1
  /\ writes = 0

\* The push of the object is the only pending sync of a binding that has
\* other objects connected.
OnlyPush(object) ==
  /\ syncQueue = <<[object |-> object, snapshot |-> NoSnapshot]>>
  /\ _directionMap = [o \in Owners |-> IF o = object THEN "push" ELSE Null]
  /\ object \in Range(_objects)
  /\ Len(_objects) >= 2

\* C29: in a two-way binding a change of the property of a connected object
\* schedules a push for that object and leaves the directions of the others
\* as they were; when that push is all that is pending, the checkpoint
\* issues one remote write, of the coerced value of that object's property.
C29_PushForOriginOnly ==
  [][\A object \in Owners :
       /\ (last'.op = "set" /\ last'.object = object /\ ~_oneWay
           /\ object \in Range(_objects))
            => /\ \A other \in Owners \ {object} :
                    _directionMap'[other] = _directionMap[other]
               /\ _directionMap[object] = Null
                    => /\ _directionMap'[object] = "push"
                       /\ syncQueue' = Append(syncQueue, [object |-> object,
                                                          snapshot |-> NoSnapshot])
               /\ _directionMap[object] # Null
                    => (_directionMap'[object] = _directionMap[object]
                        /\ syncQueue' = syncQueue)
       /\ (last'.op = "sync" /\ OnlyPush(object))
            => /\ writes' = writes + 1
               /\ Len(flushed') = 1
               /\ flushed'[1].object = object /\ flushed'[1].direction = "push"
               /\ flushed'[1].value = getFirebaseValue(localValue[object])
               /\ ~flushed'[1].failed => remoteValue' = flushed'[1].value
               /\ localValue' = localValue]_vars

\* With two objects connected the property of one was set to an object
\* value; the checkpoint wrote its coerced value to the ref, once.
C29_Witness ==
  /\ ~_oneWay /\ steps = 3 /\ last.op = "sync"
  /\ Len(_objects) = 2
  /\ localChanges = 1
  /\ Len(flushed) = 1 /\ flushed[1].direction = "push" /\ ~flushed[1].failed
  /\ flushed[1].value = 1 /\ localValue[flushed[1].object] = ObjBase + 1
  /\ remoteValue = 1
  /\ writes = 1

\* C30: a child event whose name is the marker key leaves content and
\* _names of a Firebase.List as they were, and _names never holds the
\* marker key.
C30_MarkerSkipped ==
  /\ (IsEvent(last.op) /\ last.delivered /\ event.name = MarkerKey) => ~last.changed
  /\ MarkerKey \notin Range(_names)

\* The part of C30 that holds: the handlers of Firebase.Array leave every
\* list as it is when the name of the event is the marker key.
ArraySkipsMarker ==
  \A type \in EventTypes, val \in PlainValues, prev \in MarkerNames \cup {Null} :
    ArrayHandle(type, List(content, _names), Snapshot(MarkerKey, val), prev)
      = List(content, _names)

\* C31: when the push of one object is all that is pending and its write
\* succeeds, every other connected object holds the value pushed after the
\* checkpoint, or has a pull of that value pending for the next one.
C31_OthersFollow ==
  [][\A object \in Owners :
       (last'.op = "sync" /\ OnlyPush(object) /\ ~flushed'[1].failed)
         => \A other \in Range(_objects') \ {object} :
              \/ localValue'[other] = remoteValue'
              \/ /\ _directionMap'[other] = "pull"
                 /\ \E i \in 1..Len(syncQueue') :
                      syncQueue'[i] = [object |-> other,
                                       snapshot |-> Snapshot("value", remoteValue')]]_vars

\* The calls of _sync scheduled for the object and not yet run.
Scheduled(object) == SelectSeq(syncQueue, LAMBDA e : e.object = object)

\* The object is connected with a direction pending, and a call of _sync
\* scheduled for it before a disconnect is still in the queue.
Reconnected(object) ==
  /\ object \in Range(_objects)
  /\ _directionMap[object] # Null
  /\ Len(Scheduled(object)) >= 2

\* C32: for an object that was disconnected and connected again, the
\* checkpoint applies at most one sync, and a value it writes to the
\* property is the payload of the call scheduled after the reconnect, not
\* of a call scheduled before the disconnect.
C32_StaleTaskSkipped ==
  [][\A object \in Owners :
       (last'.op = "sync" /\ Reconnected(object))
         => LET current == Scheduled(object)[Len(Scheduled(object))]
            IN  /\ Len(Applied(flushed', object)) <= 1
                /\ \A i \in 1..Len(flushed') :
                     (flushed'[i].object = object /\ flushed'[i].direction = "pull")
                       => /\ flushed'[i].error = "none"
                          /\ current.snapshot # NoSnapshot
                          /\ flushed'[i].value = getSnapshotValue(current.snapshot)]_vars

\* The four child-event listeners of a list bound to r are among regs.
Listening(regs, r) == \A t \in EventTypes : [ref |-> r, type |-> t] \in regs

\* C33: of two lists, rebinding or releasing one leaves the registrations of
\* the other as they were, so that each list that is bound and not released
\* has its four listeners registered.
C33_PeersIndependent ==
  /\ [](peer.ref # Null => Listening(peer.listeners, peer.ref))
  /\ []((ref # Null /\ ~isDestroyed) => Listening(listeners, ref))
  /\ [][last'.op \in {"setRef", "willDestroy"} => peer'.listeners = peer.listeners]_vars
  /\ [][last'.op = "peerSetRef" => listeners' = listeners]_vars

\* C34: when every child is added after the last one and children are
\* removed, content and _names have the same length and hold, index by
\* index, the values and the names of the children of the location, in
\* sibling order.
C34_AppendsAndRemovals ==
  /\ Len(content) = Len(_names)
  /\ ref # Null => /\ _names = NamesOf(remote[ref])
                   /\ content = ValuesOf(remote[ref])

\* A child was added after the last one, after another was removed from a
\* list of two.
C34_Witness ==
  /\ ref # Null /\ steps = 4
  /\ last.op = "child_added" /\ last.delivered
  /\ Len(content) = 2 /\ content[1] # content[2]

\* What replaceContent leaves of the list when no listener is registered,
\* so that no child event reaches the list during the call.
Unheard(index, amount, objects) ==
  replaceContent(Call(List(content, _names), remote[ref], <<>>, pushCount),
                 {}, ref, index, amount, objects).l

\* C35: replaceContent does not write content or _names: a call during
\* which no child event reaches the list returns with both as they were,
\* and a call that issues no remote operation, or throws, changes neither.
C35_EditLeavesListAlone ==
  /\ [](ref # Null =>
          \A index \in Indices, amount \in Indices, objects \in ObjectLists :
            pushCount + Len(objects) <= MaxPush
              => Unheard(index, amount, objects) = List(content, _names))
  /\ [][(last'.op = "replaceContent" /\ last'.ops = <<>>)
          => UNCHANGED <<content, _names>>]_vars

\* replaceContent was called on a bound list that holds elements, with an
\* amount to remove at an index past the end and nothing to add: no remote
\* operation was issued, no child event raised.
C35_Witness ==
  /\ last.op = "replaceContent" /\ last.error = "none"
  /\ last.ops = <<>> /\ last.amount > 0
  /\ ref # Null /\ content # <<>>

====
